---- MODULE Spec2Model ----
(***************************************************************************)
(* Model of package xpo (src/xpo.go): the process-wide configuration, its  *)
(* three setters, and PickupRqstInfo.RequestPickup with getRequestToken.   *)
(*                                                                         *)
(* RequestPickup is a synchronous call that blocks twice on the network    *)
(* (httpClient.Do at the token endpoint and at the pickup endpoint).  The  *)
(* call is therefore modelled in three steps, one per stretch of code      *)
(* between two blocking points; pc is the caller's position.  The package  *)
(* is used from one logical context (no goroutines in the source), so the  *)
(* setters run only while no call is in progress.  What the two endpoints  *)
(* answer is the environment's choice.                                     *)
(*                                                                         *)
(* An error value is the sequence of its messages, outermost first:        *)
(* errors.New(m) is <<m>>, errors.Wrap(e, m) is <<m>> \o e, nil is <<>>.   *)
(***************************************************************************)
EXTENDS Integers, Sequences, FiniteSets, TLC

\* ------------------------------------------------------------ constants
xpoTokenURL == "https://api.ltl.xpo.com/token"
xpoTestURL == "https://api.ltl.xpo.com/1.0/cust-pickup-requests"
xpoProductionURL == "https://api.ltl.xpo.com/1.0/cust-pickup-requests?testMode=Y"

\* time.Second.  A time.Duration counts nanoseconds in 64 bits; the model
\* counts milliseconds, which fit the model checker's integers.  No
\* duration the model builds comes near either width.
Second == 1000
\* the default: time.Duration(10 * time.Second)
DefaultTimeoutSeconds == 10

\* ---------------------------------------------------------------- bounds
\* SetTimeout is called with 1..MaxTimeoutSeconds
MaxTimeoutSeconds == 2

\* ---------------------------------------------------------- input domains
\* values a caller hands to SetCredentials; "" is Go's zero string
Usernames == {"", "user"}
Passwords == {"", "secret"}
AccessTokens == {"", "acct-token"}

\* the pickup descriptions a caller submits: json.Marshal rejects a float64
\* that is NaN or infinite (TotWeight.Weight), and accepts everything else
PickupRqstInfos ==
    [PkupDate : {"2020-01-01T00:00:00"}, TotWeight : {"100.0", "NaN"}]

\* bearer tokens the token endpoint may hand out
BearerTokens == {"bearer-1", "bearer-2"}
ConfirmationNbrs == {"ABC123"}
Descriptions == {"Missing shipper"}

\* What httpClient.Do/ioutil.ReadAll yield at the token endpoint.  kind:
\* "transport" (Do failed: connection error or timeout), "read" (ReadAll
\* failed), "body" (a body was read).  For a body, jsonErr says whether
\* json.Unmarshal into TokenResponse fails, and token is what it leaves in
\* responseData.BearerToken.
NoTokenRes == [kind |-> "none", jsonErr |-> FALSE, token |-> ""]
TokenOutcomes ==
    {[kind |-> "transport", jsonErr |-> FALSE, token |-> ""],
     [kind |-> "read", jsonErr |-> FALSE, token |-> ""]}
    \cup [kind : {"body"}, jsonErr : BOOLEAN, token : BearerTokens \cup {""}]

\* What the pickup endpoint yields.  For a body: jsonErr says whether
\* json.Unmarshal into SuccessfulPickupResponse fails and conf is what it
\* leaves in Data.ConfirmationNbr (the decoder fills what it can even when
\* it reports a type error); xmlErr says whether xml.Unmarshal into
\* ErrorPickupResponse fails and desc is what it leaves in Description.
\* The four are independent: a JSON document may carry a <fault> element
\* inside a string, which the XML decoder finds.
NoPickupRes ==
    [kind |-> "none", jsonErr |-> FALSE, conf |-> "", xmlErr |-> FALSE, desc |-> ""]
PickupOutcomes ==
    {[kind |-> "transport", jsonErr |-> FALSE, conf |-> "", xmlErr |-> FALSE, desc |-> ""],
     [kind |-> "read", jsonErr |-> FALSE, conf |-> "", xmlErr |-> FALSE, desc |-> ""]}
    \cup [kind : {"body"}, jsonErr : BOOLEAN, conf : ConfirmationNbrs \cup {""},
          xmlErr : BOOLEAN, desc : Descriptions \cup {""}]

\* ------------------------------------------------------------- messages
MsgMarshal == "xpo.RequestPickup - could not marshal json"
MsgNoCredentials == "xpo.RequestPickup - no access token was provided via SetCredentials()"
MsgToken == "xpo.RequestPickup - could not get token"
MsgPost == "xpo.RequestPickup - could not make post request"
MsgRead == "xpo.RequestPickup - could not read response"
MsgUnmarshal == "xpo.RequestPickup - could not unmarshal response"
MsgFailed == "xpo.RequestPickup - pickup request failed"
MsgNoBearer == "could not get bearer token from response body"
\* errors of the standard library, by the call that reports them
ErrMarshalLib == "json: unsupported value"
ErrTransportLib == "http: transport error"
ErrReadLib == "io: read error"
ErrJSONLib == "json: cannot unmarshal"
ErrXMLLib == "xml: cannot unmarshal"

nil == <<>>
New(msg) == <<msg>>
Wrap(e, msg) == <<msg>> \o e

\* ---------------------------------------------------------------- state
VARIABLES
    username, password, accessToken,  \* credentials (package variables)
    xpoURL,                           \* the pickup URL in use
    timeout,                          \* http timeout, in milliseconds
    pc,                               \* "idle", "token" or "pickup"
    httpLog,                          \* requests issued by the current/last call
    tokenRes,                         \* what the token endpoint answered in it
    bearerToken,                      \* RequestPickup's local bearerToken
    pickupRes,                        \* what the pickup endpoint answered in it
    response, err,                    \* RequestPickup's named results
    parseLog,                         \* the Unmarshal calls made, in order
    logOut,                           \* what the call wrote with package log
    op,                               \* history: the operation that ran last
    lastMode,                         \* history: last SetProductionMode argument
    optedIn,                          \* history: SetProductionMode(true) was called
    prevToken                         \* history: bearer token the call before got

config == <<username, password, accessToken, xpoURL, timeout>>
call == <<pc, httpLog, tokenRes, bearerToken, pickupRes, response, err, parseLog, logOut>>
history == <<op, lastMode, optedIn, prevToken>>
vars == <<config, call, history>>

ZeroResponse == [ConfirmationNbr |-> ""]

Init ==
    /\ username = "" /\ password = "" /\ accessToken = ""
    /\ xpoURL = xpoTestURL
    /\ timeout = DefaultTimeoutSeconds * Second
    /\ pc = "idle"
    /\ httpLog = <<>>
    /\ tokenRes = NoTokenRes
    /\ bearerToken = ""
    /\ pickupRes = NoPickupRes
    /\ response = ZeroResponse
    /\ err = nil
    /\ parseLog = <<>>
    /\ logOut = <<>>
    /\ op = "init"
    /\ lastMode = "never"
    /\ optedIn = FALSE
    /\ prevToken = ""

\* ------------------------------------------------------------- setters

\* SetProductionMode with the assignment made whatever the argument
ProductionModeURL_Unconditional(yes, cur) == xpoProductionURL

\* SetProductionMode's effect on xpoURL: assigned only under "if yes"
ProductionModeURL(yes, cur) == IF yes THEN xpoProductionURL ELSE cur

SetProductionMode ==
    /\ pc = "idle"
    /\ \E yes \in BOOLEAN :
        /\ xpoURL' = ProductionModeURL(yes, xpoURL)
        /\ lastMode' = IF yes THEN "true" ELSE "false"
        /\ optedIn' = (optedIn \/ yes)
    /\ op' = "SetProductionMode"
    /\ UNCHANGED <<username, password, accessToken, timeout, call, prevToken>>

SetTimeout ==
    /\ pc = "idle"
    /\ \E seconds \in 1..MaxTimeoutSeconds :
        timeout' = seconds * Second
    /\ op' = "SetTimeout"
    /\ UNCHANGED <<username, password, accessToken, xpoURL, call, lastMode, optedIn, prevToken>>

SetCredentials ==
    /\ pc = "idle"
    /\ \E u \in Usernames, p \in Passwords, t \in AccessTokens :
        /\ username' = u
        /\ password' = p
        /\ accessToken' = t
    /\ op' = "SetCredentials"
    /\ UNCHANGED <<xpoURL, timeout, call, lastMode, optedIn, prevToken>>

\* ------------------------------------------------------- RequestPickup

\* json.Marshal(pr): fails on a float64 that JSON cannot represent
MarshalOK(pri) == pri.TotWeight # "NaN"

\* the request getRequestToken builds and sends
TokenRequest ==
    [method |-> "POST", url |-> xpoTokenURL,
     auth |-> [scheme |-> "Basic", cred |-> accessToken],
     contentType |-> "application/x-www-form-urlencoded",
     form |-> [grant_type |-> "password", username |-> username, password |-> password],
     timeout |-> timeout]

\* the request RequestPickup builds and sends once it holds a bearer token
PickupPost(tok) ==
    [method |-> "POST", url |-> xpoURL,
     auth |-> [scheme |-> "Bearer", cred |-> tok],
     contentType |-> "application/json",
     form |-> [grant_type |-> "", username |-> "", password |-> ""],
     timeout |-> timeout]

\* the credentials test of RequestPickup
CredentialsMissing == username = "" \/ password = "" \/ accessToken = ""

\* RequestPickup keeping the bearer token of an earlier call: when it holds
\* one it goes straight to the pickup POST
RequestPickupCall_CachedToken ==
    /\ pc = "idle"
    /\ \E pri \in PickupRqstInfos :
        IF ~MarshalOK(pri)
        THEN /\ err' = Wrap(New(ErrMarshalLib), MsgMarshal)
             /\ httpLog' = <<>>
             /\ pc' = "idle"
             /\ bearerToken' = bearerToken
        ELSE IF bearerToken # ""
        THEN /\ err' = nil
             /\ httpLog' = <<PickupPost(bearerToken)>>
             /\ pc' = "pickup"
             /\ bearerToken' = bearerToken
        ELSE /\ err' = IF CredentialsMissing THEN New(MsgNoCredentials) ELSE nil
             /\ httpLog' = <<TokenRequest>>
             /\ pc' = "token"
             /\ bearerToken' = ""
    /\ tokenRes' = NoTokenRes
    /\ pickupRes' = NoPickupRes
    /\ response' = ZeroResponse
    /\ parseLog' = <<>>
    /\ logOut' = <<>>
    /\ op' = "RequestPickup"
    /\ prevToken' = bearerToken
    /\ UNCHANGED <<config, lastMode, optedIn>>

\* RequestPickup from its entry to the token POST (httpClient.Do inside
\* getRequestToken).  A marshal failure returns at once.  The credentials
\* test assigns err and does NOT return: control falls through to
\* getRequestToken, whose result overwrites err.
RequestPickupCall ==
    /\ pc = "idle"
    /\ \E pri \in PickupRqstInfos :
        IF ~MarshalOK(pri)
        THEN /\ err' = Wrap(New(ErrMarshalLib), MsgMarshal)
             /\ httpLog' = <<>>
             /\ pc' = "idle"
        ELSE /\ err' = IF CredentialsMissing THEN New(MsgNoCredentials) ELSE nil
             /\ httpLog' = <<TokenRequest>>
             /\ pc' = "token"
    /\ tokenRes' = NoTokenRes
    /\ bearerToken' = ""
    /\ pickupRes' = NoPickupRes
    /\ response' = ZeroResponse
    /\ parseLog' = <<>>
    /\ logOut' = <<>>
    /\ op' = "RequestPickup"
    /\ prevToken' = bearerToken
    /\ UNCHANGED <<config, lastMode, optedIn>>

\* getRequestToken without the test for an empty bearer token
GetRequestTokenReturn_NoEmptyCheck(res) ==
    CASE res.kind = "transport" ->
            [bearerToken |-> "", err |-> New(ErrTransportLib), log |-> <<>>]
      [] res.kind = "read" ->
            [bearerToken |-> "", err |-> New(ErrReadLib), log |-> <<>>]
      [] res.jsonErr ->
            [bearerToken |-> "", err |-> New(ErrJSONLib), log |-> <<>>]
      [] OTHER ->
            [bearerToken |-> res.token, err |-> nil, log |-> <<>>]

\* what getRequestToken returns once httpClient.Do has answered with res.
\* The named result bearerToken is assigned only after json.Unmarshal
\* succeeded, so every earlier return carries "".
GetRequestTokenReturn(res) ==
    CASE res.kind = "transport" ->
            [bearerToken |-> "", err |-> New(ErrTransportLib), log |-> <<>>]
      [] res.kind = "read" ->
            [bearerToken |-> "", err |-> New(ErrReadLib), log |-> <<>>]
      [] res.jsonErr ->
            [bearerToken |-> "", err |-> New(ErrJSONLib), log |-> <<>>]
      [] res.token = "" ->
            [bearerToken |-> "", err |-> New(MsgNoBearer), log |-> <<"body">>]
      [] OTHER ->
            [bearerToken |-> res.token, err |-> nil, log |-> <<>>]

\* the token step storing the bearer token it received as the account token
TokenExchangeReturns_StoresToken ==
    /\ pc = "token"
    /\ \E res \in TokenOutcomes :
        LET r == GetRequestTokenReturn(res) IN
        /\ tokenRes' = res
        /\ bearerToken' = r.bearerToken
        /\ logOut' = logOut \o r.log
        /\ accessToken' = IF r.err = nil THEN r.bearerToken ELSE accessToken
        /\ IF r.err # nil
           THEN /\ err' = Wrap(r.err, MsgToken)
                /\ pc' = "idle"
                /\ httpLog' = httpLog
           ELSE /\ err' = nil
                /\ pc' = "pickup"
                /\ httpLog' = Append(httpLog, PickupPost(r.bearerToken))
    /\ op' = "RequestPickup"
    /\ UNCHANGED <<username, password, xpoURL, timeout, pickupRes, response,
                   parseLog, lastMode, optedIn, prevToken>>

\* RequestPickup from the token endpoint's answer to the pickup POST:
\* getRequestToken returns; on an error RequestPickup wraps it and returns,
\* otherwise it builds the pickup request and sends it.
TokenExchangeReturns ==
    /\ pc = "token"
    /\ \E res \in TokenOutcomes :
        LET r == GetRequestTokenReturn(res) IN
        /\ tokenRes' = res
        /\ bearerToken' = r.bearerToken
        /\ logOut' = logOut \o r.log
        /\ IF r.err # nil
           THEN /\ err' = Wrap(r.err, MsgToken)
                /\ pc' = "idle"
                /\ httpLog' = httpLog
           ELSE /\ err' = nil
                /\ pc' = "pickup"
                /\ httpLog' = Append(httpLog, PickupPost(r.bearerToken))
    /\ op' = "RequestPickup"
    /\ UNCHANGED <<config, pickupRes, response, parseLog, lastMode, optedIn, prevToken>>

\* ------------------------------------------------- parsing the response

\* the parse reporting success whenever the body is success-shaped JSON
ParsePickupResponse_NoConfirmationCheck(body) ==
    LET resp == [ConfirmationNbr |-> body.conf] IN
    IF body.jsonErr
    THEN IF body.xmlErr
         THEN [response |-> resp, err |-> Wrap(New(ErrXMLLib), MsgUnmarshal),
               parseLog |-> <<"json", "xml">>, log |-> <<>>]
         ELSE [response |-> resp, err |-> New(body.desc),
               parseLog |-> <<"json", "xml">>, log |-> <<"errorData">>]
    ELSE [response |-> resp, err |-> nil, parseLog |-> <<"json">>, log |-> <<>>]

\* the parse reporting a fault with the generic message, not its description
ParsePickupResponse_GenericFault(body) ==
    LET resp == [ConfirmationNbr |-> body.conf] IN
    IF body.jsonErr
    THEN IF body.xmlErr
         THEN [response |-> resp, err |-> Wrap(New(ErrXMLLib), MsgUnmarshal),
               parseLog |-> <<"json", "xml">>, log |-> <<>>]
         ELSE [response |-> resp, err |-> New(MsgFailed),
               parseLog |-> <<"json", "xml">>, log |-> <<"errorData">>]
    ELSE IF body.conf = ""
    THEN [response |-> resp, err |-> New(MsgFailed),
          parseLog |-> <<"json", "xml">>, log |-> <<MsgFailed, "body", "errorData">>]
    ELSE [response |-> resp, err |-> nil, parseLog |-> <<"json">>, log |-> <<>>]

\* the parse letting the diagnostic fault parse decide the error
ParsePickupResponse_DiagnosticDecides(body) ==
    LET resp == [ConfirmationNbr |-> body.conf] IN
    IF body.jsonErr
    THEN IF body.xmlErr
         THEN [response |-> resp, err |-> Wrap(New(ErrXMLLib), MsgUnmarshal),
               parseLog |-> <<"json", "xml">>, log |-> <<>>]
         ELSE [response |-> resp, err |-> New(body.desc),
               parseLog |-> <<"json", "xml">>, log |-> <<"errorData">>]
    ELSE IF body.conf = ""
    THEN [response |-> resp,
          err |-> IF body.xmlErr THEN New(MsgFailed) ELSE New(body.desc),
          parseLog |-> <<"json", "xml">>, log |-> <<MsgFailed, "body", "errorData">>]
    ELSE [response |-> resp, err |-> nil, parseLog |-> <<"json">>, log |-> <<>>]

\* the parse trying the fault shape before the success shape
ParsePickupResponse_XMLFirst(body) ==
    IF ~body.xmlErr
    THEN [response |-> ZeroResponse, err |-> New(body.desc),
          parseLog |-> <<"xml">>, log |-> <<"errorData">>]
    ELSE LET resp == [ConfirmationNbr |-> body.conf] IN
         IF body.jsonErr
         THEN [response |-> resp, err |-> Wrap(New(ErrJSONLib), MsgUnmarshal),
               parseLog |-> <<"xml", "json">>, log |-> <<>>]
         ELSE IF body.conf = ""
         THEN [response |-> resp, err |-> New(MsgFailed),
               parseLog |-> <<"xml", "json">>, log |-> <<MsgFailed, "body">>]
         ELSE [response |-> resp, err |-> nil,
               parseLog |-> <<"xml", "json">>, log |-> <<>>]

\* RequestPickup from json.Unmarshal(body, &response) to its return.
\* json.Unmarshal writes into the named result, which is returned with the
\* error on every path.  The fault parse after an empty confirmation number
\* discards its error and its result only goes to the log.
ParsePickupResponse(body) ==
    LET resp == [ConfirmationNbr |-> body.conf] IN
    IF body.jsonErr
    THEN IF body.xmlErr
         THEN [response |-> resp, err |-> Wrap(New(ErrXMLLib), MsgUnmarshal),
               parseLog |-> <<"json", "xml">>, log |-> <<>>]
         ELSE [response |-> resp, err |-> New(body.desc),
               parseLog |-> <<"json", "xml">>, log |-> <<"errorData">>]
    ELSE IF body.conf = ""
    THEN [response |-> resp, err |-> New(MsgFailed),
          parseLog |-> <<"json", "xml">>, log |-> <<MsgFailed, "body", "errorData">>]
    ELSE [response |-> resp, err |-> nil, parseLog |-> <<"json">>, log |-> <<>>]

\* RequestPickup from the pickup endpoint's answer to its return
PickupReturns ==
    /\ pc = "pickup"
    /\ \E res \in PickupOutcomes :
        /\ pickupRes' = res
        /\ CASE res.kind = "transport" ->
                    /\ err' = Wrap(New(ErrTransportLib), MsgPost)
                    /\ UNCHANGED <<response, parseLog, logOut>>
             [] res.kind = "read" ->
                    /\ err' = Wrap(New(ErrReadLib), MsgRead)
                    /\ UNCHANGED <<response, parseLog, logOut>>
             [] OTHER ->
                    LET r == ParsePickupResponse(res) IN
                    /\ err' = r.err
                    /\ response' = r.response
                    /\ parseLog' = r.parseLog
                    /\ logOut' = logOut \o r.log
    /\ pc' = "idle"
    /\ op' = "RequestPickup"
    /\ UNCHANGED <<config, httpLog, tokenRes, bearerToken, lastMode, optedIn, prevToken>>

\* ------------------------------------------------------- specification
Next ==
    \/ SetProductionMode
    \/ SetTimeout
    \/ SetCredentials
    \/ RequestPickupCall
    \/ TokenExchangeReturns
    \/ PickupReturns

Spec == Init /\ [][Next]_vars

\* --------------------------------------------------------------- claims

PickupURLs == {xpoTestURL, xpoProductionURL}
\* positions in httpLog of the pickup POSTs and of the token POSTs
PickupPosts == {i \in DOMAIN httpLog : httpLog[i].url \in PickupURLs}
TokenPosts == {i \in DOMAIN httpLog : httpLog[i].url = xpoTokenURL}
\* a RequestPickup call is in progress or was the last operation
InCall == op = "RequestPickup"
\* the last operation was a RequestPickup call and it has returned
Returned == op = "RequestPickup" /\ pc = "idle"
\* the returned call read a body from the pickup endpoint
ReadBody == Returned /\ pickupRes.kind = "body"
\* the token exchange of the call failed
TokenFailed ==
    \/ tokenRes.kind \in {"transport", "read"}
    \/ tokenRes.kind = "body" /\ (tokenRes.jsonErr \/ tokenRes.token = "")
ErrUnparseable == Wrap(New(ErrXMLLib), MsgUnmarshal)

\* C1 (as claimed): a RequestPickup call made while username, password or
\* the account token is empty issues no HTTP request at all, and returns
\* the configuration error.  (A call whose payload cannot be marshalled
\* returns before the credentials test and is left out.)
C1_NoRequestWithoutCredentials ==
    (InCall /\ CredentialsMissing /\ err # Wrap(New(ErrMarshalLib), MsgMarshal))
        => /\ httpLog = <<>>
           /\ pc = "idle" => err = New(MsgNoCredentials)

\* C2 (as claimed): the URL of a call's pickup POST is the one the most
\* recent SetProductionMode call selected: production after
\* SetProductionMode(true), test after SetProductionMode(false) or when
\* SetProductionMode was never called.
C2_URLFollowsLastMode ==
    InCall =>
        \A i \in PickupPosts :
            httpLog[i].url =
                IF lastMode = "true" THEN xpoProductionURL ELSE xpoTestURL

\* C3: as long as SetProductionMode(true) has not been called, whatever else
\* has run, the URL in use is the test URL and no request of a call went to
\* the production URL: every pickup POST targeted the test URL.
C3_ProductionOnlyAfterOptIn ==
    ~optedIn =>
        /\ xpoURL = xpoTestURL
        /\ \A i \in DOMAIN httpLog : httpLog[i].url # xpoProductionURL
        /\ \A i \in PickupPosts : httpLog[i].url = xpoTestURL

\* C3 witness: a pickup POST was sent after SetProductionMode(false) and
\* before any SetProductionMode(true).
C3_Witness ==
    /\ ~optedIn /\ lastMode = "false"
    /\ PickupPosts # {}
    /\ username = "user"

\* C4: a returned call whose body parsed as the success shape with a
\* non-empty confirmation number has no error and carries that number; and a
\* call returns without error only in that case.
C4_ConfirmationIsSuccess ==
    Returned =>
        /\ (pickupRes.kind = "body" /\ ~pickupRes.jsonErr /\ pickupRes.conf # "")
              => (err = nil /\ response.ConfirmationNbr = pickupRes.conf)
        /\ err = nil
              => /\ pickupRes.kind = "body" /\ ~pickupRes.jsonErr
                 /\ pickupRes.conf # ""
                 /\ response.ConfirmationNbr = pickupRes.conf

\* C4 witness: a call returned the confirmation number ABC123 without error.
C4_Witness ==
    Returned /\ err = nil /\ response.ConfirmationNbr = "ABC123"

\* C5: a returned call whose body failed the JSON parse and parsed as the
\* fault shape has the error whose message is exactly the fault's
\* description: never success, never the unparseable-response error.
C5_FaultDescriptionIsError ==
    (ReadBody /\ pickupRes.jsonErr /\ ~pickupRes.xmlErr)
        => /\ err = New(pickupRes.desc)
           /\ err # nil
           /\ err # ErrUnparseable

\* C5 witness: a fault body with the description "Missing shipper" came back.
C5_Witness ==
    /\ ReadBody /\ pickupRes.jsonErr /\ ~pickupRes.xmlErr
    /\ pickupRes.desc = "Missing shipper"
    /\ err = New("Missing shipper")

\* C6: a returned call whose body parsed as JSON with an empty confirmation
\* number has the generic "pickup request failed" error, whether or not the
\* diagnostic fault parse succeeds and whatever it finds; the raw body was
\* logged.
C6_EmptyConfirmationIsLogicalFailure ==
    (ReadBody /\ ~pickupRes.jsonErr /\ pickupRes.conf = "")
        => /\ err = New(MsgFailed)
           /\ \E i \in DOMAIN logOut : logOut[i] = "body"

\* C6 witness: such a body on which the diagnostic fault parse succeeds and
\* finds a description.
C6_Witness ==
    /\ ReadBody /\ ~pickupRes.jsonErr /\ pickupRes.conf = ""
    /\ ~pickupRes.xmlErr /\ pickupRes.desc = "Missing shipper"

\* C7 (as claimed): the JSON parse comes first, the fault shape is tried
\* only if the JSON parse failed, and a body matching neither shape gives
\* the unparseable-response error, wrapped with the parsing-step message and
\* distinct from the fault and logical-failure errors.
C7_FaultParseOnlyAfterJSONFailure ==
    ReadBody =>
        /\ parseLog[1] = "json"
        /\ (\E i \in DOMAIN parseLog : parseLog[i] = "xml") => pickupRes.jsonErr
        /\ (pickupRes.jsonErr /\ pickupRes.xmlErr)
              => /\ err = ErrUnparseable
                 /\ err # New(pickupRes.desc) /\ err # New(MsgFailed)

\* C7 (amended): the JSON parse comes first; the fault shape is tried
\* second, exactly when the JSON parse failed or left an empty confirmation
\* number, and it decides the error only when the JSON parse failed; a body
\* matching neither shape gives the unparseable-response error, wrapped with
\* the parsing-step message and distinct from the other two errors, and
\* that error is returned for no other body.
C7_DualShapeParsing ==
    ReadBody =>
        /\ parseLog[1] = "json"
        /\ \A i \in DOMAIN parseLog : parseLog[i] = "xml" => i = 2
        /\ (\E i \in DOMAIN parseLog : parseLog[i] = "xml")
              <=> (pickupRes.jsonErr \/ pickupRes.conf = "")
        /\ ~pickupRes.jsonErr => err \in {nil, New(MsgFailed)}
        /\ (pickupRes.jsonErr /\ pickupRes.xmlErr)
              <=> err = ErrUnparseable
        /\ err = ErrUnparseable
              => /\ err[1] = MsgUnmarshal
                 /\ err # New(pickupRes.desc) /\ err # New(MsgFailed)

\* C7 witness: a body matching neither shape came back, and both parses ran.
C7_Witness ==
    /\ ReadBody /\ pickupRes.jsonErr /\ pickupRes.xmlErr
    /\ parseLog = <<"json", "xml">>
    /\ err = ErrUnparseable

\* C8: a pickup POST is in the call's log only behind the call's token POST,
\* whose answer held a non-empty bearer token, the one the pickup POST
\* carries; and when the token exchange failed (transport, read, JSON, empty
\* token) the call has returned an error tagged "could not get token" and
\* sent no pickup POST.
C8_TokenBeforePickup ==
    /\ \A i \in PickupPosts :
        /\ i = 2 /\ httpLog[1].url = xpoTokenURL
        /\ tokenRes.kind = "body" /\ ~tokenRes.jsonErr
        /\ tokenRes.token # ""
        /\ httpLog[i].auth = [scheme |-> "Bearer", cred |-> tokenRes.token]
    /\ (InCall /\ TokenFailed)
        => /\ pc = "idle"
           /\ err # nil /\ err[1] = MsgToken
           /\ PickupPosts = {}

\* C8 witness: the token endpoint answered with bearer-2 and the pickup POST
\* carrying it is in flight.
C8_Witness ==
    /\ pc = "pickup" /\ tokenRes.token = "bearer-2"
    /\ PickupPosts = {2}

\* C9: a call sends at most one token POST and at most one pickup POST; a
\* transport failure of either ends the call with an error and nothing sent
\* after it; and a call that sends the pickup POST has sent its own token
\* POST first and carries the token that exchange returned, never one kept
\* from the call before.
C9_NoRetryNoReuse ==
    /\ Cardinality(TokenPosts) <= 1
    /\ Cardinality(PickupPosts) <= 1
    /\ Len(httpLog) <= 2
    /\ (InCall /\ tokenRes.kind = "transport")
        => (pc = "idle" /\ err # nil /\ Len(httpLog) = 1)
    /\ (InCall /\ pickupRes.kind = "transport")
        => (pc = "idle" /\ err # nil /\ Len(httpLog) = 2)
    /\ \A i \in PickupPosts :
        /\ \E j \in TokenPosts : j < i
        /\ httpLog[i].auth.cred = bearerToken
        /\ bearerToken = tokenRes.token

\* C9 witness: the call before obtained a bearer token, and this call sent
\* its own token POST and carries the different token it got.
C9_Witness ==
    /\ prevToken = "bearer-1"
    /\ pc = "pickup"
    /\ TokenPosts = {1} /\ PickupPosts = {2}
    /\ httpLog[2].auth.cred = "bearer-2"

\* C10: a step of RequestPickup (getRequestToken included) leaves username,
\* password, account token, pickup URL and timeout as they are, whatever
\* its outcome; each setter changes only its own variables; so nothing but
\* the three setters changes the configuration.
C10_ConfigFrame ==
    [][ /\ op' = "RequestPickup" => UNCHANGED config
        /\ op' = "SetCredentials" => UNCHANGED <<xpoURL, timeout>>
        /\ op' = "SetProductionMode"
              => UNCHANGED <<username, password, accessToken, timeout>>
        /\ op' = "SetTimeout"
              => UNCHANGED <<username, password, accessToken, xpoURL>>
        /\ op' \in {"RequestPickup", "SetCredentials", "SetProductionMode", "SetTimeout"}
      ]_vars

\* C10 witness: a call failed at the token exchange with every setting away
\* from its default, and the settings are there after it.
C10_Witness ==
    /\ Returned /\ err # nil /\ TokenFailed
    /\ username = "user" /\ password = "secret" /\ accessToken = "acct-token"
    /\ xpoURL = xpoProductionURL
    /\ timeout = 1 * Second

====
